---- MODULE Spec2Model ----
(***************************************************************************)
(* lib_layerdiffusion/models.py: the transparent VAE decoder               *)
(* (TransparentVAEDecoder.decode_pixel / estimate_augmented), the shape    *)
(* bookkeeping of UNet1024.forward, fill_checkerboard_bg and               *)
(* LatentTransparencyOffsetEncoder.                                        *)
(*                                                                         *)
(* Tensors that carry values (pixel, latent, eps, result, y) are kept in a *)
(* sparse form: a shape, one background value per channel and a finite map *)
(* of positions <<n, ch, row, col>> whose value differs.  Every tensor     *)
(* operation of the code used on them is either a permutation of positions *)
(* (flip, rot90) or elementwise (clip, mean, isnan), and is computed on    *)
(* this form exactly.  Feature maps inside the network carry only their    *)
(* shape and whether the latent projection has been added into them.       *)
(* Numbers are exact multiples of 1/16; NaN and the infinities are kept    *)
(* as separate kinds.                                                      *)
(***************************************************************************)
EXTENDS Integers, Sequences, FiniteSets, TLC

VARIABLES
  net,            \* self.model: the loaded network, fixed at construction
  pc,             \* position of the running call
  pixel_in,       \* decode_pixel argument pixel
  latent_in,      \* decode_pixel argument latent
  pixel,          \* local pixel after .to(load_device, dtype)
  latent,         \* local latent after .to(load_device, dtype)
  idx,            \* number of descriptors of args already taken by the loop
  feed_pixel,     \* estimate_augmented: feed_pixel
  feed_latent,    \* estimate_augmented: feed_latent
  sample,         \* UNet1024.forward: sample
  sample_latent,  \* UNet1024.forward: sample_latent
  skips,          \* UNet1024.forward: down_block_res_samples
  blk,            \* UNet1024.forward: index of the next down / up block
  eps,            \* estimate_augmented: eps
  result,         \* estimate_augmented: result
  y,              \* estimate_augmented / decode_pixel: y
  ret,            \* the value returned to the caller
  log,            \* observation: the steps taken by the running call, in order
  cnt,            \* observation: pushes, pops and latent additions of the running forward pass
  fy,             \* fill_checkerboard_bg argument y
  cb,             \* fill_checkerboard_bg: cb
  vis,            \* fill_checkerboard_bg: vis
  ex,             \* LatentTransparencyOffsetEncoder: the tensor between layers
  ein,            \* LatentTransparencyOffsetEncoder argument x
  layer           \* LatentTransparencyOffsetEncoder: number of layers applied

vars == <<net, pc, pixel_in, latent_in, pixel, latent, idx, feed_pixel, feed_latent,
          sample, sample_latent, skips, blk, eps, result, y, ret, log, cnt,
          fy, cb, vis, ex, ein, layer>>

decodeVars == <<pixel_in, latent_in, pixel, latent, idx, feed_pixel, feed_latent,
                eps, result, y, log>>
forwardVars == <<sample, sample_latent, skips, blk, cnt>>
fillVars == <<fy, cb, vis>>
encVars == <<ex, ein, layer>>

\* ------------------------------------------------------------------ bounds
MaxUnits == 2
MaxBatch == 2

\* ------------------------------------------------------- program constants
InChannels == 3
OutChannels == 4
LatentChannels == 4
LatentScale == 8
LayersPerBlock == 2
CheckerCell == 64
InjectAt == 3

block_out_channels == <<32, 32, 64, 128, 256, 512, 512>>

args ==
  << [flip |-> FALSE, rok |-> 0], [flip |-> FALSE, rok |-> 1],
     [flip |-> FALSE, rok |-> 2], [flip |-> FALSE, rok |-> 3],
     [flip |-> TRUE, rok |-> 0], [flip |-> TRUE, rok |-> 1],
     [flip |-> TRUE, rok |-> 2], [flip |-> TRUE, rok |-> 3] >>

None == [none |-> TRUE]

\* ------------------------------------------------------------------ values
\* A number n stands for n / One; results of the mean stay integral because
\* every value fed in is a multiple of Len(args).
One == 2 * Len(args)

Fin(n) == [k |-> "fin", n |-> n]

NaN == [k |-> "nan", n |-> 0]

PosInf == [k |-> "inf", n |-> 1]

NegInf == [k |-> "inf", n |-> -1]

IsNan(v) == v.k = "nan"

IsInf(v) == v.k = "inf"

Min(a, b) == IF a < b THEN a ELSE b

Max(a, b) == IF a > b THEN a ELSE b

\* Mutant of ClipValue: the clamp is left out.
ClipValueNone(v) == v

\* Tensor.clip(0, 1) on one element: NaN stays NaN, the infinities are clamped.
ClipValue(v) ==
  IF v.k = "nan" THEN NaN
  ELSE IF v.k = "inf" THEN (IF v.n > 0 THEN Fin(One) ELSE Fin(0))
  ELSE Fin(Min(Max(v.n, 0), One))

RECURSIVE SumN(_, _)
SumN(vs, i) == IF i = 0 THEN 0 ELSE vs[i].n + SumN(vs, i - 1)

\* torch.mean over a sequence of elements.
MeanValue(vs) ==
  LET I == 1..Len(vs) IN
  IF \E i \in I : IsNan(vs[i]) THEN NaN
  ELSE IF (\E i \in I : vs[i] = PosInf) /\ (\E i \in I : vs[i] = NegInf) THEN NaN
  ELSE IF \E i \in I : vs[i] = PosInf THEN PosInf
  ELSE IF \E i \in I : vs[i] = NegInf THEN NegInf
  ELSE Fin(SumN(vs, Len(vs)) \div Len(vs))

\* ----------------------------------------------------------------- tensors
Tensor(b, c, h, w, bg, sp, dev, dtype) ==
  [b |-> b, c |-> c, h |-> h, w |-> w, bg |-> bg, sp |-> sp, dev |-> dev, dtype |-> dtype]

Shape(t) == <<t.b, t.c, t.h, t.w>>

\* t[n, ch, row, col]
Elem(t, p) == IF p \in DOMAIN t.sp THEN t.sp[p] ELSE t.bg[p[2]]

\* Equality of two tensors position by position.
TensorEq(a, b) ==
  /\ Shape(a) = Shape(b)
  /\ a.bg = b.bg
  /\ \A p \in (DOMAIN a.sp) \cup (DOMAIN b.sp) : Elem(a, p) = Elem(b, p)

\* Tensor.clip(0, 1)
Clip(t) ==
  [t EXCEPT !.bg = [ch \in 1..t.c |-> ClipValue(t.bg[ch])],
            !.sp = [p \in DOMAIN t.sp |-> ClipValue(t.sp[p])]]

\* Moves the element at every position p to position f[p].
Permute(t, f) ==
  LET D == {f[p] : p \in DOMAIN t.sp}
  IN [t EXCEPT !.sp = [q \in D |-> t.sp[CHOOSE p \in DOMAIN t.sp : f[p] = q]]]

\* torch.flip(t, dims=(3,))
FlipW(t) == Permute(t, [p \in DOMAIN t.sp |-> <<p[1], p[2], p[3], t.w + 1 - p[4]>>])

\* torch.flip(t, dims=(2,))
FlipH(t) == Permute(t, [p \in DOMAIN t.sp |-> <<p[1], p[2], t.h + 1 - p[3], p[4]>>])

\* t.transpose(2, 3)
Transpose(t) ==
  [Permute(t, [p \in DOMAIN t.sp |-> <<p[1], p[2], p[4], p[3]>>]) EXCEPT !.h = t.w, !.w = t.h]

\* torch.rot90(t, k, dims=(2, 3)): k is taken modulo 4; one quarter turn is
\* flip(3) then transpose, two are flip(2) and flip(3), three are flip(2) then
\* transpose.
Rot90(t, k) ==
  LET kk == k % 4 IN
  IF kk = 1 THEN Transpose(FlipW(t))
  ELSE IF kk = 2 THEN FlipW(FlipH(t))
  ELSE IF kk = 3 THEN Transpose(FlipH(t))
  ELSE t

\* Tensor.to(device=..., dtype=...); the values modelled are exact in every dtype.
To(t, dev, dtype) == [t EXCEPT !.dev = dev, !.dtype = dtype]

\* ------------------------------------------------------------ feature maps
\* A feature map inside the network: its shape, and whether the projected
\* latent has been added into it (lat).
Feat(b, c, h, w, lat) == [b |-> b, c |-> c, h |-> h, w |-> w, lat |-> lat]

FeatOf(t, lat) == Feat(t.b, t.c, t.h, t.w, lat)

\* nn.Conv2d(cin, cout, kernel_size=k, padding=p, stride=s) applied to x;
\* None stands for the shape error the call raises.
Conv2d(x, cin, cout, k, p, s) ==
  IF x.c # cin \/ x.h + 2 * p < k \/ x.w + 2 * p < k THEN None
  ELSE [x EXCEPT !.c = cout,
                 !.h = (x.h + 2 * p - k) \div s + 1,
                 !.w = (x.w + 2 * p - k) \div s + 1]

Broadcastable(m, n) == m = n \/ m = 1 \/ n = 1

\* a + b with broadcasting; None when the shapes cannot be broadcast together.
AddFeat(a, b) ==
  IF /\ Broadcastable(a.b, b.b) /\ Broadcastable(a.c, b.c)
     /\ Broadcastable(a.h, b.h) /\ Broadcastable(a.w, b.w)
  THEN Feat(Max(a.b, b.b), Max(a.c, b.c), Max(a.h, b.h), Max(a.w, b.w), a.lat \/ b.lat)
  ELSE None

\* The residual sub-block of a down or up stage built for cin -> cout channels.
Resnet(x, cin, cout) == IF x.c # cin THEN None ELSE [x EXCEPT !.c = cout]

\* torch.cat([hidden, skip], dim=1)
CatChannels(hidden, skip) ==
  IF hidden.b # skip.b \/ hidden.h # skip.h \/ hidden.w # skip.w THEN None
  ELSE [hidden EXCEPT !.c = hidden.c + skip.c, !.lat = hidden.lat \/ skip.lat]

\* Upsample2D of an up stage: nearest interpolation by 2, then a 3x3 convolution.
Upsample(x, c) == Conv2d([x EXCEPT !.h = 2 * x.h, !.w = 2 * x.w], c, c, 3, 1, 1)

\* Channels the down stage i (0-based) was built with: (input_channel, output_channel).
DownChannels(i) ==
  [cin |-> IF i = 0 THEN block_out_channels[1] ELSE block_out_channels[i],
   cout |-> block_out_channels[i + 1]]

\* Mutant of DownIsFinal: the last down stage downsamples too.
DownIsFinalNever(i) == FALSE

DownIsFinal(i) == i = Len(block_out_channels) - 1

\* self.down_blocks[i](hidden_states=x): num_layers residual sub-blocks, then the
\* stride-2 downsampling convolution unless the stage is the final one; every
\* sub-block output and the downsampled output are returned as res_samples.
DownBlock(x, i) ==
  LET ch == DownChannels(i)
      r1 == Resnet(x, ch.cin, ch.cout)
      r2 == IF r1 = None THEN None ELSE Resnet(r1, ch.cout, ch.cout)
      ds == IF r2 = None THEN None ELSE Conv2d(r2, ch.cout, ch.cout, 3, 1, 2)
  IN IF r2 = None THEN None
     ELSE IF DownIsFinal(i) THEN [sample |-> r2, res |-> <<r1, r2>>]
     ELSE IF ds = None THEN None
     ELSE [sample |-> ds, res |-> <<r1, r2, ds>>]

\* self.mid_block(x)
MidBlock(x) ==
  Resnet(x, block_out_channels[Len(block_out_channels)], block_out_channels[Len(block_out_channels)])

reversed_block_out_channels ==
  [i \in 1..Len(block_out_channels) |-> block_out_channels[Len(block_out_channels) + 1 - i]]

\* Channels the up stage i (0-based) was built with.
UpChannels(i) ==
  [prev |-> IF i = 0 THEN reversed_block_out_channels[1] ELSE reversed_block_out_channels[i],
   cout |-> reversed_block_out_channels[i + 1],
   cin |-> reversed_block_out_channels[Min(i + 1, Len(block_out_channels) - 1) + 1]]

\* Mutant of UpIsFinal: the last up stage upsamples too.
UpIsFinalNever(i) == FALSE

UpIsFinal(i) == i = Len(block_out_channels) - 1

\* len(upsample_block.resnets)
UpResnets == LayersPerBlock + 1

\* Sub-block r (0-based) of up stage i takes the last skip tensor of res, concatenates it
\* to the running feature map and maps the sum of channels to cout.
RECURSIVE UpLayers(_, _, _, _)
UpLayers(x, res, i, r) ==
  IF r = UpResnets THEN x
  ELSE IF Len(res) = 0 THEN None
  ELSE LET ch == UpChannels(i)
           skipC == IF r = UpResnets - 1 THEN ch.cin ELSE ch.cout
           hidC == IF r = 0 THEN ch.prev ELSE ch.cout
           cat == CatChannels(x, res[Len(res)])
           out == IF cat = None THEN None ELSE Resnet(cat, hidC + skipC, ch.cout)
       IN IF out = None THEN None
          ELSE UpLayers(out, SubSeq(res, 1, Len(res) - 1), i, r + 1)

\* self.up_blocks[i](x, res_samples, emb)
UpBlock(x, res, i) ==
  LET h == UpLayers(x, res, i, 0)
  IN IF h = None THEN None
     ELSE IF UpIsFinal(i) THEN h
     ELSE Upsample(h, UpChannels(i).cout)

\* down_block_res_samples[-n:]
LastN(s, n) == SubSeq(s, Max(1, Len(s) - n + 1), Len(s))

\* down_block_res_samples[:-n]
DropLastN(s, n) == SubSeq(s, 1, Max(0, Len(s) - n))

\* ------------------------------------------------------------- the network
\* What the loaded weights make the network emit.  "identity" copies the three
\* input channels to output channels 2..4 and emits 1 on channel 1; "emit" gives
\* the value bg everywhere and, on the pass numbered `on`, the value v at
\* position <<1, 1, 1, 1>> of its output.
HalfValue == Fin(One \div 2)

EmitValues == {Fin(k * Len(args)) : k \in -1..3} \cup {NaN, PosInf, NegInf}

SpikeValues == {Fin(3 * Len(args)), NaN, PosInf}

SpikePasses == {1, 6}

Nets ==
  {[kind |-> "identity", bg |-> Fin(One), v |-> Fin(One), on |-> 0]}
  \cup {[kind |-> "emit", bg |-> v, v |-> v, on |-> 0] : v \in EmitValues}
  \cup {[kind |-> "emit", bg |-> HalfValue, v |-> v, on |-> k] : v \in SpikeValues, k \in SpikePasses}

\* Values of self.model(fp, .) on pass number pass, given the output shape.
NetOut(n, fp, pass, shp) ==
  IF n.kind = "identity"
  THEN Tensor(shp.b, shp.c, shp.h, shp.w,
              [ch \in 1..shp.c |-> IF ch = 1 THEN Fin(One) ELSE fp.bg[Min(ch - 1, fp.c)]],
              [q \in {<<p[1], p[2] + 1, p[3], p[4]>> : p \in DOMAIN fp.sp}
                 |-> fp.sp[<<q[1], q[2] - 1, q[3], q[4]>>]],
              fp.dev, fp.dtype)
  ELSE Tensor(shp.b, shp.c, shp.h, shp.w,
              [ch \in 1..shp.c |-> n.bg],
              IF n.on = pass THEN (<<1, 1, 1, 1>> :> n.v) ELSE <<>>,
              fp.dev, fp.dtype)

\* ------------------------------------------------------------------ inputs
Sizes ==
  {LatentScale, LatentScale + CheckerCell} \cup {CheckerCell * k : k \in 1..MaxUnits}

load_device == "gpu"

load_dtype == "f16"

\* Positions and values at which a pixel tensor of shape (b, c, h, w) may differ
\* from its background.
PixelSpikes(b, c, h, w) ==
  {<<>>} \cup
  {p :> v : p \in {<<1, 1, 1, 2>>, <<b, c, h, 1>>, <<1, c, 2, w>>},
            v \in {Fin(0), Fin(3 * Len(args))}}

\* The pixel tensors a caller may pass.  Networks that ignore the pixel values
\* are driven with a plain pixel tensor only.
Pixels ==
  {Tensor(b, c, h, w, [ch \in 1..c |-> HalfValue], sp, "cpu", "f32") :
     b \in 1..MaxBatch, c \in {1, InChannels, 4}, h \in Sizes, w \in Sizes,
     sp \in {<<>>}}

PixelsFor(n) ==
  IF n.kind = "identity"
  THEN UNION {{[t EXCEPT !.sp = sp] : sp \in PixelSpikes(t.b, t.c, t.h, t.w)} : t \in Pixels}
  ELSE Pixels

\* The latent tensors a caller may pass with pixel tensor px: the one at exactly
\* 1/8 of its resolution, and one that is a row too high.
LatentsFor(px) ==
  {Tensor(px.b, LatentChannels, px.h \div LatentScale + dh, px.w \div LatentScale,
          [ch \in 1..LatentChannels |-> Fin(0)],
          IF dh = 0 THEN (<<1, 1, 1, 1>> :> Fin(One)) ELSE <<>>, "cpu", "f32") : dh \in {0, 1}}

NoCount == [push |-> 0, pop |-> 0, inject |-> 0, under |-> 0]

Halted == {"done", "AssertionError", "ValueError", "RuntimeError"}

\* -------------------------------------------------------------------- Init
Init ==
  /\ net \in Nets
  /\ pc = "idle"
  /\ pixel_in = None /\ latent_in = None /\ pixel = None /\ latent = None
  /\ idx = 0 /\ feed_pixel = None /\ feed_latent = None
  /\ sample = None /\ sample_latent = None /\ skips = <<>> /\ blk = 0
  /\ eps = None /\ result = <<>> /\ y = None /\ ret = None /\ log = <<>> /\ cnt = NoCount
  /\ fy = None /\ cb = None /\ vis = None
  /\ ex = None /\ ein = None /\ layer = 0

\* ------------------------------------------------------------ decode_pixel
\* A caller invokes decode_pixel(pixel, latent).
DecodeCall ==
  /\ pc = "idle"
  /\ \E px \in PixelsFor(net) : \E lt \in LatentsFor(px) :
       /\ pixel_in' = px
       /\ latent_in' = lt
  /\ pc' = "dec_assert"
  /\ UNCHANGED <<net, pixel, latent, idx, feed_pixel, feed_latent, eps, result, y, ret, log>>
  /\ UNCHANGED <<forwardVars, fillVars, encVars>>

\* Mutant of DecodeAssert: the channel assertion is left out.
DecodeAssertSkipped ==
  /\ pc = "dec_assert"
  /\ pc' = "dec_to"
  /\ UNCHANGED <<net, pixel_in, latent_in, pixel, latent, idx, feed_pixel, feed_latent,
                 eps, result, y, ret, log>>
  /\ UNCHANGED <<forwardVars, fillVars, encVars>>

\* assert pixel.shape[1] == 3
DecodeAssert ==
  /\ pc = "dec_assert"
  /\ IF pixel_in.c = InChannels
     THEN pc' = "dec_to" /\ log' = log
     ELSE pc' = "AssertionError" /\ log' = Append(log, [ev |-> "raise", d |-> 0])
  /\ UNCHANGED <<net, pixel_in, latent_in, pixel, latent, idx, feed_pixel, feed_latent,
                 eps, result, y, ret>>
  /\ UNCHANGED <<forwardVars, fillVars, encVars>>

\* pixel = pixel.to(device=self.load_device, dtype=self.dtype), and the same for latent
DecodeTo ==
  /\ pc = "dec_to"
  /\ pixel' = To(pixel_in, load_device, load_dtype)
  /\ latent' = To(latent_in, load_device, load_dtype)
  /\ log' = Append(log, [ev |-> "to", d |-> 0])
  /\ idx' = 0
  /\ result' = <<>>
  /\ pc' = "aug_loop"
  /\ UNCHANGED <<net, pixel_in, latent_in, feed_pixel, feed_latent, eps, y, ret>>
  /\ UNCHANGED <<forwardVars, fillVars, encVars>>

\* The forward transform of one descriptor: flip along the width if flip, then
\* rot90 by rok.
Augment(t, d) == Rot90(IF d.flip THEN FlipW(t) ELSE t, d.rok)

\* Mutant of UnAugment: the undo turns the same way as the forward transform.
UnAugmentSameTurn(t, d) ==
  LET r == Rot90(t, d.rok) IN IF d.flip THEN FlipW(r) ELSE r

\* The undo applied to eps: rot90 by -rok, then flip along the width if flip.
UnAugment(t, d) ==
  LET r == Rot90(t, -d.rok) IN IF d.flip THEN FlipW(r) ELSE r

\* for flip, rok in args: clone, flip and rotate pixel and latent
AugPrepare ==
  /\ pc = "aug_loop"
  /\ idx < Len(args)
  /\ idx' = idx + 1
  /\ feed_pixel' = Augment(pixel, args[idx + 1])
  /\ feed_latent' = Augment(latent, args[idx + 1])
  /\ log' = Append(log, [ev |-> "clone", d |-> idx + 1])
  /\ pc' = "fwd_in"
  /\ UNCHANGED <<net, pixel_in, latent_in, pixel, latent, eps, result, y, ret>>
  /\ UNCHANGED <<forwardVars, fillVars, encVars>>

\* --------------------------------------------------------- UNet1024.forward
FwdFail ==
  /\ pc' = "RuntimeError"
  /\ log' = Append(log, [ev |-> "raise", d |-> idx])

\* sample_latent = self.latent_conv_in(latent); sample = self.conv_in(x);
\* down_block_res_samples = (sample,)
FwdConvIn ==
  /\ pc = "fwd_in"
  /\ LET sl == Conv2d(FeatOf(feed_latent, TRUE), LatentChannels, block_out_channels[3], 1, 0, 1)
         s == Conv2d(FeatOf(feed_pixel, FALSE), InChannels, block_out_channels[1], 3, 1, 1)
     IN IF sl = None \/ s = None
        THEN FwdFail /\ UNCHANGED forwardVars
        ELSE /\ sample_latent' = sl
             /\ sample' = s
             /\ skips' = <<s>>
             /\ blk' = 0
             /\ cnt' = [NoCount EXCEPT !.push = 1]
             /\ log' = Append(log, [ev |-> "forward", d |-> idx])
             /\ pc' = "fwd_down"
  /\ UNCHANGED <<net, pixel_in, latent_in, pixel, latent, idx, feed_pixel, feed_latent,
                 eps, result, y, ret>>
  /\ UNCHANGED <<fillVars, encVars>>

\* Mutant of Inject: the addition is done in place (sample += sample_latent), so
\* the last skip tensor pushed, which is the same tensor, changes with it.
InjectInPlace(s, sl, sk) ==
  [sample |-> AddFeat(s, sl),
   skips |-> IF AddFeat(s, sl) = None THEN sk ELSE [sk EXCEPT ![Len(sk)] = AddFeat(s, sl)]]

\* if i == 3: sample = sample + sample_latent  (a new tensor: the skip tensors
\* already pushed are left as they are)
Inject(s, sl, sk) == [sample |-> AddFeat(s, sl), skips |-> sk]

\* One iteration of the loop over self.down_blocks.
FwdDown ==
  /\ pc = "fwd_down"
  /\ blk < Len(block_out_channels)
  /\ LET inj == IF blk = InjectAt THEN Inject(sample, sample_latent, skips)
                ELSE [sample |-> sample, skips |-> skips]
         out == IF inj.sample = None THEN None ELSE DownBlock(inj.sample, blk)
     IN IF out = None
        THEN FwdFail /\ UNCHANGED forwardVars
        ELSE /\ sample' = out.sample
             /\ skips' = inj.skips \o out.res
             /\ blk' = blk + 1
             /\ cnt' = [cnt EXCEPT !.push = @ + Len(out.res),
                                   !.inject = @ + (IF blk = InjectAt THEN 1 ELSE 0)]
             /\ pc' = IF blk + 1 = Len(block_out_channels) THEN "fwd_mid" ELSE "fwd_down"
             /\ log' = log
  /\ UNCHANGED <<net, sample_latent, pixel_in, latent_in, pixel, latent, idx, feed_pixel,
                 feed_latent, eps, result, y, ret>>
  /\ UNCHANGED <<fillVars, encVars>>

\* sample = self.mid_block(sample, emb)
FwdMid ==
  /\ pc = "fwd_mid"
  /\ LET m == MidBlock(sample)
     IN IF m = None
        THEN FwdFail /\ UNCHANGED forwardVars
        ELSE /\ sample' = m
             /\ blk' = 0
             /\ pc' = "fwd_up"
             /\ log' = log
             /\ UNCHANGED <<sample_latent, skips, cnt>>
  /\ UNCHANGED <<net, pixel_in, latent_in, pixel, latent, idx, feed_pixel, feed_latent,
                 eps, result, y, ret>>
  /\ UNCHANGED <<fillVars, encVars>>

\* One iteration of the loop over self.up_blocks.
FwdUp ==
  /\ pc = "fwd_up"
  /\ blk < Len(block_out_channels)
  /\ LET res == LastN(skips, UpResnets)
         rest == DropLastN(skips, UpResnets)
         out == UpBlock(sample, res, blk)
     IN IF out = None
        THEN FwdFail /\ UNCHANGED forwardVars
        ELSE /\ sample' = out
             /\ skips' = rest
             /\ blk' = blk + 1
             /\ cnt' = [cnt EXCEPT !.pop = @ + Len(res),
                                   !.under = @ + (UpResnets - Len(res))]
             /\ pc' = IF blk + 1 = Len(block_out_channels) THEN "fwd_out" ELSE "fwd_up"
             /\ log' = log
             /\ UNCHANGED sample_latent
  /\ UNCHANGED <<net, pixel_in, latent_in, pixel, latent, idx, feed_pixel, feed_latent,
                 eps, result, y, ret>>
  /\ UNCHANGED <<fillVars, encVars>>

\* conv_norm_out, conv_act, conv_out; the forward pass returns to
\* estimate_single_pass, which returns to estimate_augmented.
FwdOut ==
  /\ pc = "fwd_out"
  /\ LET o == Conv2d(sample, block_out_channels[1], OutChannels, 3, 1, 1)
     IN IF o = None
        THEN FwdFail /\ UNCHANGED <<forwardVars, eps>>
        ELSE /\ sample' = o
             /\ eps' = NetOut(net, feed_pixel, idx, o)
             /\ pc' = "aug_collect"
             /\ log' = log
             /\ UNCHANGED <<sample_latent, skips, blk, cnt>>
  /\ UNCHANGED <<net, pixel_in, latent_in, pixel, latent, idx, feed_pixel, feed_latent,
                 result, y, ret>>
  /\ UNCHANGED <<fillVars, encVars>>

\* ------------------------------------------------------ estimate_augmented
\* eps = self.estimate_single_pass(...).clip(0, 1); eps = torch.rot90(eps, k=-rok);
\* if flip: eps = torch.flip(eps, dims=(3,)); result.append(eps)
Collect(e, d) == UnAugment(Clip(e), d)

\* Mutant of AugCollect: the result is put in front of the list.
AugCollectPrepend ==
  /\ pc = "aug_collect"
  /\ eps' = Collect(eps, args[idx])
  /\ result' = <<eps'>> \o result
  /\ log' = Append(log, [ev |-> "append", d |-> Len(result) + 1])
  /\ pc' = IF idx < Len(args) THEN "aug_loop" ELSE "aug_stack"
  /\ UNCHANGED <<net, pixel_in, latent_in, pixel, latent, idx, feed_pixel, feed_latent,
                 y, ret>>
  /\ UNCHANGED <<forwardVars, fillVars, encVars>>

AugCollect ==
  /\ pc = "aug_collect"
  /\ eps' = Collect(eps, args[idx])
  /\ result' = Append(result, eps')
  /\ log' = Append(log, [ev |-> "append", d |-> Len(result) + 1])
  /\ pc' = IF idx < Len(args) THEN "aug_loop" ELSE "aug_stack"
  /\ UNCHANGED <<net, pixel_in, latent_in, pixel, latent, idx, feed_pixel, feed_latent,
                 y, ret>>
  /\ UNCHANGED <<forwardVars, fillVars, encVars>>

\* torch.isnan(t).any()
AnyNan(t) == (\E ch \in 1..t.c : IsNan(t.bg[ch])) \/ (\E p \in DOMAIN t.sp : IsNan(t.sp[p]))

\* torch.isinf(t).any()
AnyInf(t) == (\E ch \in 1..t.c : IsInf(t.bg[ch])) \/ (\E p \in DOMAIN t.sp : IsInf(t.sp[p]))

\* torch.stack(result, dim=0) needs tensors of one shape.
Stackable(r) == \A i \in 1..Len(r) : Shape(r[i]) = Shape(r[1])

\* if torch.isnan(result).any() or torch.isinf(result).any(): raise ValueError
Corrupt(r) == \E i \in 1..Len(r) : AnyNan(r[i]) \/ AnyInf(r[i])

\* result = torch.stack(result, dim=0) and the NaN / inf check
AugValidate ==
  /\ pc = "aug_stack"
  /\ IF ~Stackable(result)
     THEN pc' = "RuntimeError" /\ log' = Append(log, [ev |-> "raise", d |-> idx])
     ELSE IF Corrupt(result)
     THEN pc' = "ValueError"
          /\ log' = log \o <<[ev |-> "validate", d |-> 0], [ev |-> "raise", d |-> idx]>>
     ELSE pc' = "aug_mean" /\ log' = Append(log, [ev |-> "validate", d |-> 0])
  /\ UNCHANGED <<net, pixel_in, latent_in, pixel, latent, idx, feed_pixel, feed_latent,
                 eps, result, y, ret>>
  /\ UNCHANGED <<forwardVars, fillVars, encVars>>

\* torch.mean(result, dim=0)
Mean(r) ==
  LET D == UNION {DOMAIN r[i].sp : i \in 1..Len(r)}
  IN [r[1] EXCEPT !.bg = [ch \in 1..r[1].c |-> MeanValue([i \in 1..Len(r) |-> r[i].bg[ch]])],
                  !.sp = [p \in D |-> MeanValue([i \in 1..Len(r) |-> Elem(r[i], p)])]]

\* y = torch.mean(result, dim=0); return y
AugMean ==
  /\ pc = "aug_mean"
  /\ y' = Mean(result)
  /\ log' = Append(log, [ev |-> "mean", d |-> 0])
  /\ pc' = "dec_clip"
  /\ UNCHANGED <<net, pixel_in, latent_in, pixel, latent, idx, feed_pixel, feed_latent,
                 eps, result, ret>>
  /\ UNCHANGED <<forwardVars, fillVars, encVars>>

\* y = y.clip(0, 1)  (len(y.shape) is 4 here, so the dimension check passes)
DecodeClip ==
  /\ pc = "dec_clip"
  /\ y' = Clip(y)
  /\ log' = Append(log, [ev |-> "clamp", d |-> 0])
  /\ pc' = "dec_return"
  /\ UNCHANGED <<net, pixel_in, latent_in, pixel, latent, idx, feed_pixel, feed_latent,
                 eps, result, ret>>
  /\ UNCHANGED <<forwardVars, fillVars, encVars>>

\* assert y.shape[1] == 4; return y.to(pixel_device, dtype=pixel_dtype)
DecodeReturn ==
  /\ pc = "dec_return"
  /\ IF y.c = 4
     THEN ret' = To(y, pixel_in.dev, pixel_in.dtype) /\ pc' = "done" /\ log' = log
     ELSE ret' = ret /\ pc' = "AssertionError"
          /\ log' = Append(log, [ev |-> "raise", d |-> idx])
  /\ UNCHANGED <<net, pixel_in, latent_in, pixel, latent, idx, feed_pixel, feed_latent,
                 eps, result, y>>
  /\ UNCHANGED <<forwardVars, fillVars, encVars>>

\* The call is over (returned or raised); its tensors are released.
DecodeEnd ==
  /\ pc \in Halted
  /\ pixel_in # None
  /\ pc' = "idle"
  /\ pixel_in' = None /\ latent_in' = None /\ pixel' = None /\ latent' = None
  /\ idx' = 0 /\ feed_pixel' = None /\ feed_latent' = None
  /\ sample' = None /\ sample_latent' = None /\ skips' = <<>> /\ blk' = 0
  /\ eps' = None /\ result' = <<>> /\ y' = None /\ ret' = None /\ log' = <<>>
  /\ cnt' = NoCount
  /\ UNCHANGED <<net, fillVars, encVars>>

NextDecode ==
  \/ DecodeCall \/ DecodeAssert \/ DecodeTo \/ AugPrepare
  \/ FwdConvIn \/ FwdDown \/ FwdMid \/ FwdUp \/ FwdOut
  \/ AugCollect \/ AugValidate \/ AugMean \/ DecodeClip \/ DecodeReturn \/ DecodeEnd

Spec == Init /\ [][NextDecode]_vars

\* ---------------------------------------------------- fill_checkerboard_bg
\* Values of the tensors of fill_checkerboard_bg are whole thousandths.
FOne == 10 * 100

\* a * b on thousandths
FMul(a, b) == (a * b) \div FOne

\* checkerboard(shape): np.indices(shape).sum(axis=0) % 2; the element that numpy
\* has at (i - 1, j - 1) is at[i][j]
checkerboard(rows, cols) ==
  [rows |-> rows, cols |-> cols,
   at |-> [i \in 1..rows |-> [j \in 1..cols |-> ((i - 1) + (j - 1)) % 2]]]

\* cv2.resize(src, (w, h), interpolation=cv2.INTER_NEAREST): the destination
\* element (i, j) is the source element (min(floor(i * rows / h), rows - 1),
\* min(floor(j * cols / w), cols - 1)); an empty source is an error (None).
ResizeNearest(src, w, h) ==
  IF src.rows = 0 \/ src.cols = 0 THEN None
  ELSE [rows |-> h, cols |-> w,
        at |-> [i \in 1..h |-> [j \in 1..w |->
                  src.at[Min(((i - 1) * src.rows) \div h, src.rows - 1) + 1]
                        [Min(((j - 1) * src.cols) \div w, src.cols - 1) + 1]]]]

\* 0.5 + (v - 0.5) * 0.1 on every element, v being 0 or 1
Rescale(board) ==
  [board EXCEPT !.at = [i \in 1..board.rows |-> [j \in 1..board.cols |->
                          FOne \div 2 + ((board.at[i][j] * FOne - FOne \div 2) * (FOne \div 10)) \div FOne]]]

\* cb = checkerboard(shape=(H // 64, W // 64)); cb = cv2.resize(cb, (W, H), ...);
\* cb = 0.5 + (cb - 0.5) * 0.1
Board(h, w) ==
  LET small == checkerboard(h \div CheckerCell, w \div CheckerCell)
      big == ResizeNearest(small, w, h)
  IN IF big = None THEN None ELSE Rescale(big)

\* Mutant of Composite: alpha weighs the background instead of the colour.
CompositeSwapped(fg, alpha, c) == FMul(fg, FOne - alpha) + FMul(c, alpha)

\* fg * alpha + cb * (1 - alpha) on one element
Composite(fg, alpha, c) == FMul(fg, alpha) + FMul(c, FOne - alpha)

\* alpha = y[..., :1]; fg = y[..., 1:]
AlphaAt(t, p) == Elem(t, <<p[1], 1, p[3], p[4]>>)

FgAt(t, p) == Elem(t, <<p[1], p[2] + 1, p[3], p[4]>>)

\* The positions of t that share one pixel with a position of its spike map.
Touched(t) ==
  {<<p[1], ch, p[3], p[4]>> : p \in DOMAIN t.sp, ch \in 1..t.c - 1}

\* vis = fg * alpha + cb * (1 - alpha): vis has the channels of fg; bg0 and bg1
\* give its value per channel on the untouched pixels where cb has its low and
\* its high value, sp its value at the positions of touched pixels.
Compose(t, board) ==
  [b |-> t.b, c |-> t.c - 1, h |-> t.h, w |-> t.w, board |-> board,
   bg0 |-> [ch \in 1..t.c - 1 |-> Composite(t.bg[ch + 1], t.bg[1], FOne \div 2 - FOne \div 20)],
   bg1 |-> [ch \in 1..t.c - 1 |-> Composite(t.bg[ch + 1], t.bg[1], FOne \div 2 + FOne \div 20)],
   sp |-> [p \in Touched(t) |->
             Composite(FgAt(t, p), AlphaAt(t, p), board.at[p[3]][p[4]])]]

\* vis[n, row, col, ch] with position p = <<n, ch, row, col>>, counted from 1
VisAt(v, p) ==
  IF p \in DOMAIN v.sp THEN v.sp[p]
  ELSE IF v.board.at[p[3]][p[4]] < FOne \div 2 THEN v.bg0[p[2]]
  ELSE v.bg1[p[2]]

\* The RGBA tensors a caller may pass: alpha is channel 1, colour channels 2..4.
\* Alpha 0 or 1 everywhere with plain or uneven colour, alpha 1/2 everywhere,
\* and alpha 1 but for one pixel.
FillValues(b, h, w) ==
  ({0, FOne} \X {<<>>, <<b, 3, h, w>> :> 0})
  \cup {<<FOne \div 2, <<1, 4, 1, 2>> :> 400>>, <<FOne, <<1, 1, 2, 1>> :> 800>>}

FillInputs ==
  UNION {{Tensor(b, 4, h, w, <<av[1], 200, 600, FOne>>, av[2], "cpu", "f32") :
            av \in FillValues(b, h, w)} :
         b \in {1, MaxBatch}, h \in Sizes, w \in Sizes}

InitFill ==
  /\ net = None
  /\ pc = "idle"
  /\ pixel_in = None /\ latent_in = None /\ pixel = None /\ latent = None
  /\ idx = 0 /\ feed_pixel = None /\ feed_latent = None
  /\ sample = None /\ sample_latent = None /\ skips = <<>> /\ blk = 0
  /\ eps = None /\ result = <<>> /\ y = None /\ ret = None /\ log = <<>> /\ cnt = NoCount
  /\ fy = None /\ cb = None /\ vis = None
  /\ ex = None /\ ein = None /\ layer = 0

\* A caller invokes fill_checkerboard_bg(y).
FillCall ==
  /\ pc = "idle"
  /\ fy' \in FillInputs
  /\ cb' = None /\ vis' = None
  /\ pc' = "fill_board"
  /\ UNCHANGED <<net, ret, decodeVars, forwardVars, encVars>>

\* The three statements that build cb.
FillBoard ==
  /\ pc = "fill_board"
  /\ cb' = Board(fy.h, fy.w)
  /\ pc' = IF cb' = None THEN "cv2.error" ELSE "fill_compose"
  /\ UNCHANGED <<net, ret, fy, vis, decodeVars, forwardVars, encVars>>

\* vis = fg * alpha + cb * (1 - alpha); return vis
FillCompose ==
  /\ pc = "fill_compose"
  /\ vis' = Compose(fy, cb)
  /\ pc' = "fill_done"
  /\ UNCHANGED <<net, ret, fy, cb, decodeVars, forwardVars, encVars>>

FillEnd ==
  /\ pc \in {"fill_done", "cv2.error"}
  /\ pc' = "idle"
  /\ fy' = None /\ cb' = None /\ vis' = None
  /\ UNCHANGED <<net, ret, decodeVars, forwardVars, encVars>>

NextFill == FillCall \/ FillBoard \/ FillCompose \/ FillEnd

SpecFill == InitFill /\ [][NextFill]_vars

\* ----------------------------------------- LatentTransparencyOffsetEncoder
\* The convolutions of self.blocks, in order: (in, out, stride); each has
\* kernel_size=3 and padding=1, and SiLU between them keeps the shape.
blocks ==
  << <<4, 32, 1>>, <<32, 32, 1>>, <<32, 64, 2>>, <<64, 64, 1>>, <<64, 128, 2>>,
     <<128, 128, 1>>, <<128, 256, 2>>, <<256, 256, 1>>, <<256, 4, 1>> >>

\* Mutant of EncConv: every convolution has stride 1.
EncConvUnitStride(x, l) == Conv2d(x, l[1], l[2], 3, 1, 1)

\* One convolution of self.blocks applied to x.
EncConv(x, l) == Conv2d(x, l[1], l[2], 3, 1, l[3])

EncSizes == 1..(LatentScale + 1) \cup {CheckerCell * k : k \in 1..MaxUnits}

EncInputs ==
  {Feat(b, c, h, w, FALSE) : b \in 1..MaxBatch, c \in {InChannels, LatentChannels},
                             h \in EncSizes, w \in EncSizes}

\* A caller invokes the encoder on x.
EncCall ==
  /\ pc = "idle"
  /\ ein' \in EncInputs
  /\ ex' = ein'
  /\ layer' = 0
  /\ pc' = "enc_run"
  /\ UNCHANGED <<net, ret, decodeVars, forwardVars, fillVars>>

\* self.blocks(x), one convolution (and the activation after it) at a time
EncLayer ==
  /\ pc = "enc_run"
  /\ layer < Len(blocks)
  /\ LET o == EncConv(ex, blocks[layer + 1])
     IN IF o = None
        THEN pc' = "RuntimeError" /\ ex' = ex /\ layer' = layer
        ELSE /\ ex' = o
             /\ layer' = layer + 1
             /\ pc' = IF layer + 1 = Len(blocks) THEN "enc_done" ELSE "enc_run"
  /\ UNCHANGED <<net, ret, ein, decodeVars, forwardVars, fillVars>>

EncEnd ==
  /\ pc \in {"enc_done", "RuntimeError"}
  /\ ein # None
  /\ pc' = "idle"
  /\ ex' = None /\ ein' = None /\ layer' = 0
  /\ UNCHANGED <<net, ret, decodeVars, forwardVars, fillVars>>

NextEnc == EncCall \/ EncLayer \/ EncEnd

SpecEnc == InitFill /\ [][NextEnc]_vars

\* ================================================================ properties
\* v is a number in [0, 1].
InUnit(v) == v.k = "fin" /\ 0 <= v.n /\ v.n <= One

AllInUnit(t) ==
  (\A ch \in 1..t.c : InUnit(t.bg[ch])) /\ (\A p \in DOMAIN t.sp : InUnit(t.sp[p]))

Finite(v) == v.k = "fin"

\* The network emits a NaN or an infinity somewhere on pass k.
EmitsNonFinite(n, k) ==
  n.kind = "emit" /\ (~Finite(n.bg) \/ (n.on = k /\ ~Finite(n.v)))

EmitsNan(n, k) ==
  n.kind = "emit" /\ (IsNan(n.bg) \/ (n.on = k /\ IsNan(n.v)))

\* The network emits a finite value outside [0, 1] on some pass.
EmitsOutOfRange(n) ==
  n.kind = "emit" /\ ((Finite(n.bg) /\ ~InUnit(n.bg)) \/ (n.on > 0 /\ Finite(n.v) /\ ~InUnit(n.v)))

InDecode == pixel_in # None

\* The running call has a 3-channel pixel and a 4-channel latent at exactly
\* 1/8 of its height and width.
ValidInput ==
  /\ InDecode
  /\ pixel_in.c = 3 /\ latent_in.c = 4 /\ latent_in.b = pixel_in.b
  /\ 8 * latent_in.h = pixel_in.h /\ 8 * latent_in.w = pixel_in.w

\* C1: whenever decode_pixel returns, whatever finite or non-finite values the
\* network emitted in its 8 passes (below 0 and above 1 included), the returned
\* tensor has 4 channels and every value of it is a number in [0, 1].
C1_OutputInRange ==
  (pc = "done" /\ InDecode) => (pixel_in.c = 3 /\ ret.c = 4 /\ AllInUnit(ret))

C1_Witness ==
  /\ pc = "done" /\ InDecode /\ EmitsOutOfRange(net)
  /\ net.on > 0 /\ net.v = Fin(3 * Len(args))
  /\ ret.c = 4 /\ AllInUnit(ret) /\ DOMAIN ret.sp # {}

\* C2 as stated: for every valid input (latent at exactly H/8 by W/8) no shape
\* mismatch occurs and the returned tensor has the pixel's height and width.
C2_AllValidInputs ==
  ValidInput =>
    /\ pc # "RuntimeError"
    /\ pc = "done" => (ret.h = pixel_in.h /\ ret.w = pixel_in.w)

\* C2 as amended: the same for valid inputs whose height and width are
\* multiples of 64; a valid input with another height or width never returns.
C2_MultiplesOf64 ==
  ValidInput =>
    IF pixel_in.h % 64 = 0 /\ pixel_in.w % 64 = 0
    THEN /\ pc # "RuntimeError"
         /\ pc = "done" => (ret.b = pixel_in.b /\ ret.h = pixel_in.h /\ ret.w = pixel_in.w)
         /\ pc \in {"aug_collect", "aug_stack"} =>
              \A i \in 1..Len(result) : result[i].h = pixel_in.h /\ result[i].w = pixel_in.w
    ELSE pc # "done" /\ result = <<>>

C2_Witness ==
  /\ ValidInput /\ pc = "done"
  /\ pixel_in.h # pixel_in.w /\ pixel_in.h % 64 = 0 /\ pixel_in.w % 64 = 0
  /\ ret.h = pixel_in.h /\ ret.w = pixel_in.w

\* C3: a call whose pixel tensor does not have 3 channels fails on the first
\* statement: nothing has been converted, cloned, fed to the network, appended
\* or returned, and the call ends in the assertion error.
C3_FailsBeforeCompute ==
  (InDecode /\ pixel_in.c # 3) =>
    /\ pc \in {"dec_assert", "AssertionError"}
    /\ \A i \in 1..Len(log) : log[i].ev = "raise"
    /\ pixel = None /\ latent = None /\ feed_pixel = None /\ feed_latent = None
    /\ sample = None /\ cnt = NoCount /\ eps = None /\ result = <<>> /\ y = None
    /\ ret = None

C3_Witness ==
  /\ InDecode /\ pixel_in.c = 4 /\ pixel_in.b = 2 /\ pixel_in.h # pixel_in.w
  /\ pc = "AssertionError" /\ ret = None /\ log = <<[ev |-> "raise", d |-> 0]>>

\* C4 as stated: if the network emits a NaN or an infinity on any pass the
\* call never gets past validation (it raises ValueError), and a returned
\* tensor holds no NaN and no infinity.
C4_NonFiniteRejected ==
  /\ (InDecode /\ pc \in {"aug_mean", "dec_clip", "dec_return", "done"}) =>
       \A k \in 1..Len(args) : ~EmitsNonFinite(net, k)
  /\ (InDecode /\ pc = "done") => AllInUnit(ret)

\* The part of C4 the code does keep: an emitted NaN is rejected, and nothing
\* non-finite is returned.
C4_NanRejected ==
  /\ (InDecode /\ pc \in {"aug_mean", "dec_clip", "dec_return", "done"}) =>
       \A k \in 1..Len(args) : ~EmitsNan(net, k)
  /\ (InDecode /\ pc = "done") => AllInUnit(ret)

\* The descriptor the loop takes on its i-th iteration: flip = false with
\* k = 0..3, then flip = true with k = 0..3.
Desc(i) == [flip |-> i > 4, rok |-> (i - 1) % 4]

\* The output of a network that is the identity on the colour channels and the
\* constant 1 on alpha, for the pixel tensor of the running call.
IdentityOut == NetOut([kind |-> "identity"], pixel, 0, [b |-> pixel.b, c |-> 4, h |-> pixel.h, w |-> pixel.w])

RoundTrips(t) ==
  \A i \in 1..8 : TensorEq(UnAugment(Augment(t, Desc(i)), Desc(i)), t)

\* C5 as stated: the forward transform followed by the undo gives back the
\* tensor position by position, and with the identity network every one of the
\* results and their mean equal the network's output on the untransformed pixel.
C5_IdentityNetwork ==
  pixel # None =>
    /\ pc = "aug_loop" => (RoundTrips(pixel) /\ RoundTrips(latent))
    /\ net.kind = "identity" =>
         /\ \A i \in 1..Len(result) : TensorEq(result[i], IdentityOut)
         /\ pc = "dec_clip" => TensorEq(y, IdentityOut)

\* C5 as amended: the same, the results and their mean being that output
\* clamped to [0, 1].
C5_IdentityNetworkClamped ==
  pixel # None =>
    /\ pc = "aug_loop" => (RoundTrips(pixel) /\ RoundTrips(latent))
    /\ net.kind = "identity" =>
         /\ \A i \in 1..Len(result) : TensorEq(result[i], Clip(IdentityOut))
         /\ pc = "dec_clip" => TensorEq(y, Clip(IdentityOut))
         /\ AllInUnit(pixel) => Clip(IdentityOut) = IdentityOut

C5_Witness ==
  /\ pc = "dec_clip" /\ net.kind = "identity" /\ Len(result) = 8
  /\ pixel.h # pixel.w
  /\ \E p \in DOMAIN pixel.sp : p[3] # p[4] /\ ~InUnit(pixel.sp[p])
  /\ TensorEq(y, Clip(IdentityOut)) /\ DOMAIN y.sp # {}

InForward == pc \in {"fwd_down", "fwd_mid", "fwd_up", "fwd_out"}

\* C6: the encoder pass pushes 21 tensors (the projected image, 2 sub-block
\* outputs per down stage and 6 downsample outputs), which is 3 for each of the
\* 7 decoder stages; every decoder stage pops exactly 3, never more than the
\* stack holds, and the stack is empty after the last one.
C6_SkipStackBalance ==
  InForward =>
    /\ Len(skips) = cnt.push - cnt.pop
    /\ cnt.under = 0
    /\ pc = "fwd_down" => (cnt.pop = 0 /\ cnt.push = 1 + 3 * blk)
    /\ pc = "fwd_mid" => (cnt.pop = 0 /\ cnt.push = 1 + 7 * 2 + 6 /\ cnt.push = 7 * 3)
    /\ pc = "fwd_up" => (cnt.pop = 3 * blk /\ Len(skips) = 3 * (7 - blk))
    /\ pc = "fwd_out" => (cnt.pop = cnt.push /\ skips = <<>>)

C6_Witness ==
  pc = "fwd_out" /\ cnt.push = 21 /\ cnt.pop = 21 /\ skips = <<>> /\ idx = 8

\* C9: the projected latent is added exactly once per forward pass, between
\* down stage 2 and down stage 3; the feature map it is added to has 64
\* channels and, for a valid input, 1/8 of the height and width of the image,
\* which are the latent's; the tensors pushed before the addition (the first
\* 10) never hold the latent, those pushed after it do.
C9_LatentInjection ==
  InForward =>
    /\ cnt.inject = (IF pc = "fwd_down" /\ blk <= 3 THEN 0 ELSE 1)
    /\ sample.lat = (cnt.inject = 1)
    /\ (pc = "fwd_down" /\ blk = 3) =>
         /\ sample.c = 64 /\ sample_latent.c = 64
         /\ ValidInput =>
              /\ 8 * sample.h = feed_pixel.h /\ 8 * sample.w = feed_pixel.w
              /\ sample.h = feed_latent.h /\ sample.w = feed_latent.w
    /\ \A j \in 1..Len(skips) : skips[j].lat = (j > 10)

C9_Witness ==
  /\ pc = "fwd_down" /\ blk = 4 /\ ValidInput /\ cnt.inject = 1 /\ sample.lat
  /\ Len(skips) = 13 /\ ~skips[10].lat /\ skips[11].lat
  /\ skips[10].c = 64 /\ 8 * skips[10].h = feed_pixel.h /\ feed_pixel.h # feed_pixel.w

Events(e) == {i \in 1..Len(log) : log[i].ev = e}

\* The shape of the network's output for input t.
OutShapeOf(t) == [b |-> t.b, c |-> 4, h |-> t.h, w |-> t.w]

\* C10: the network runs at most 8 times, the k-th run on the k-th descriptor
\* of the fixed order, its result stored at index k; validation comes after
\* all 8 results, the mean right after validation, the final clamp right after
\* the mean, and nothing follows a failure.
C10_StepOrder ==
  InDecode =>
    /\ Cardinality(Events("forward")) <= 8
    /\ \A i \in Events("forward") :
         log[i].d = Cardinality({j \in Events("forward") : j <= i})
    /\ \A i \in Events("append") :
         /\ log[i].d = Cardinality({j \in Events("append") : j <= i})
         /\ i > 1 /\ log[i - 1] = [ev |-> "forward", d |-> log[i].d]
    /\ Len(result) = Cardinality(Events("append"))
    /\ InForward => (feed_pixel = Augment(pixel, Desc(idx)) /\ feed_latent = Augment(latent, Desc(idx)))
    /\ pc \in {"aug_loop", "aug_stack"} =>
         \A i \in 1..Len(result) :
           LET fp == Augment(pixel, Desc(i))
           IN TensorEq(result[i], UnAugment(Clip(NetOut(net, fp, i, OutShapeOf(fp))), Desc(i)))
    /\ \A i \in Events("validate") : Cardinality({j \in Events("append") : j < i}) = 8
    /\ \A i \in Events("mean") : i > 1 /\ log[i - 1].ev = "validate"
    /\ \A i \in Events("clamp") : i > 1 /\ log[i - 1].ev = "mean"
    /\ \A i \in Events("raise") : i = Len(log)
    /\ pc = "done" => Events("clamp") # {}

C10_Witness ==
  /\ pc = "done" /\ InDecode /\ Cardinality(Events("forward")) = 8
  /\ net.on = 6 /\ net.v = Fin(3 * Len(args))
  /\ DOMAIN result[6].sp # {} /\ DOMAIN result[1].sp = {}
  /\ log[Len(log)].ev = "clamp"

\* -------------------------------------------------------- fill_checkerboard_bg
AlphaEverywhere(t, a) ==
  t.bg[1] = a /\ \A p \in DOMAIN t.sp : p[2] = 1 => t.sp[p] = a

\* The checkerboard value at row i, column j (from 0) of an h by w image:
\* 0.45 or 0.55 by the parity of the cell of the (h / 64) by (w / 64) board
\* that nearest-neighbour upsampling puts there.
CheckerValue(h, w, i, j) ==
  IF (((i * (h \div 64)) \div h) + ((j * (w \div 64)) \div w)) % 2 = 0 THEN 450 ELSE 550

\* C7: with alpha 1 everywhere the result is the colour channels unchanged;
\* with alpha 0 everywhere it is the checkerboard value at every pixel and
\* channel.
C7_Composite ==
  pc = "fill_done" =>
    /\ vis.c = 3 /\ vis.b = fy.b /\ vis.h = fy.h /\ vis.w = fy.w
    /\ AlphaEverywhere(fy, FOne) =>
         \A n \in 1..vis.b, ch \in 1..vis.c, i \in 1..vis.h, j \in 1..vis.w :
           VisAt(vis, <<n, ch, i, j>>) = FgAt(fy, <<n, ch, i, j>>)
    /\ AlphaEverywhere(fy, 0) =>
         \A n \in 1..vis.b, ch \in 1..vis.c, i \in 1..vis.h, j \in 1..vis.w :
           VisAt(vis, <<n, ch, i, j>>) = CheckerValue(fy.h, fy.w, i - 1, j - 1)

C7_Witness ==
  /\ pc = "fill_done" /\ AlphaEverywhere(fy, 0) /\ fy.h = 128 /\ fy.w = 64
  /\ DOMAIN fy.sp # {}
  /\ VisAt(vis, <<1, 1, 1, 1>>) = 450 /\ VisAt(vis, <<1, 3, 65, 64>>) = 550

\* ----------------------------------------- LatentTransparencyOffsetEncoder
\* C8 as stated: the encoder keeps batch, height and width and gives 4 channels.
C8_ShapePreserved ==
  pc = "enc_done" => (ex.b = ein.b /\ ex.c = 4 /\ ex.h = ein.h /\ ex.w = ein.w)

\* C8 as amended: it keeps the batch and gives 4 channels, and its three
\* stride-2 convolutions bring height and width to ceil(H / 8) and ceil(W / 8).
C8_ShapeReduced ==
  pc = "enc_done" =>
    /\ ein.c = 4 /\ ex.b = ein.b /\ ex.c = 4
    /\ ex.h = (ein.h + 7) \div 8 /\ ex.w = (ein.w + 7) \div 8

C8_Witness ==
  pc = "enc_done" /\ ein.b = 2 /\ ein.h = 64 /\ ein.w = 7 /\ ex.h = 8 /\ ex.w = 1 /\ ex.c = 4

====
